---- MODULE Spec2Model ----
(***************************************************************************)
(* Model of SGVHAK_Rover/roboclaw_wrapper.py: the RoboClaw wrapper class,  *)
(* its identifier validation, unit translation, calibration sequences,     *)
(* connection handling and the apiget/apiset result adapters.              *)
(*                                                                         *)
(* Python values are modelled with their type: [t |-> type, v |-> Int].    *)
(* Non-integer command values (Python floats) are fixed-point numbers with *)
(* denominator Den: the model's number n stands for n / Den.  All the      *)
(* numerators and denominators involved are far below 2^53, and every      *)
(* non-integer quotient differs from the nearest integer by at least       *)
(* 1/(100*Den), so int() of the float quotient equals the truncation of    *)
(* the exact quotient computed here.  Division is Python 3's true division.*)
(***************************************************************************)
EXTENDS Integers, Sequences, FiniteSets

VARIABLES
  roboclaw,        \* self.roboclaw: the controller handle, None at construction
  velocityparams,  \* self.velocityparams: unset until connect() assigns it
  angleparams,     \* self.angleparams: unset until connect() assigns it
  op,              \* the operation last invoked
  arg_id,          \* the raw identifier it was given
  arg_val,         \* its numeric argument (numerator over Den; 0 if none)
  arg_tuple,       \* the driver result handed to apiget / apiset
  arg_msg,         \* the errormessage handed to apiget / apiset
  result,          \* how it ended: "ok" or the kind of exception raised
  ctx,             \* the message (context) of the exception raised
  raw,             \* the raw driver tuple carried by the exception
  ret,             \* the value it returned
  idret,           \* the tuple check_id returned
  calls,           \* the driver calls it issued, in order, with their replies
  tpc,             \* threads: each caller's position in its command
  tcmd,            \* threads: each caller's command
  inflight,        \* threads: the driver call each caller has in flight
  wire,            \* threads: driver calls in the order they reached the transport
  submitted        \* threads: the callers in the order they submitted commands

seqvars == <<roboclaw, velocityparams, angleparams, op, arg_id, arg_val,
             arg_tuple, arg_msg, result, ctx, raw, ret, idret, calls>>
thrvars == <<tpc, tcmd, inflight, wire, submitted>>
vars == <<roboclaw, velocityparams, angleparams, op, arg_id, arg_val,
          arg_tuple, arg_msg, result, ctx, raw, ret, idret, calls,
          tpc, tcmd, inflight, wire, submitted>>

-----------------------------------------------------------------------------
(* Bounds of the model *)

\* command values are multiples of 1/Den
Den == 2
\* integer percentages tried: -MaxPct .. MaxPct
MaxPct == 102
\* integer degrees tried: -MaxDeg .. MaxDeg
MaxDeg == 47
\* how many handles connect() may create in one run
MaxHandles == 2
\* longest driver read tuple handed to apiget
MaxTupleLen == 4

-----------------------------------------------------------------------------
(* Python values *)

PyInt(n) == [t |-> "int", v |-> n]
PyBool(b) == [t |-> "bool", v |-> IF b THEN 1 ELSE 0]
PyStr(n) == [t |-> "str", v |-> n]
PyFloat(n) == [t |-> "float", v |-> n]

\* isinstance(x, int): bool is a subclass of int
isinstance_int(x) == x.t \in {"int", "bool"}
isinstance_bool(x) == x.t = "bool"

Abs(n) == IF n < 0 THEN -n ELSE n

\* int(n / d) for d > 0: truncation toward zero
int(n, d) == IF n >= 0 THEN n \div d ELSE -((-n) \div d)

None == [gen |-> 0, kind |-> "none"]
Unset == [unset |-> TRUE]
NoRet == [shape |-> "none", items |-> <<>>]

\* immediate_execution: the 'buffered' parameter of the RoboClaw API
immediate_execution == 1

-----------------------------------------------------------------------------
(* Outcomes of a call: a normal return or a raised exception *)

Return(cs, r) ==
  [result |-> "ok", ctx |-> "", raw |-> <<>>, ret |-> r, calls |-> cs]

Raise(kind, message, tuple, cs) ==
  [result |-> kind, ctx |-> message, raw |-> tuple, ret |-> NoRet, calls |-> cs]

\* statement a; statement b: an exception in a propagates and b is not run
Then(a, b) ==
  IF a.result # "ok" THEN a ELSE [b EXCEPT !.calls = a.calls \o b.calls]

-----------------------------------------------------------------------------
(* apiget, apiset *)

apiget_mut_nounwrap(result_tuple, errormessage) ==
  IF result_tuple[1] = 0
  THEN Raise("DriverError", errormessage, result_tuple, <<>>)
  ELSE Return(<<>>, [shape |-> "tuple", items |-> Tail(result_tuple)])

apiget(result_tuple, errormessage) ==
  IF result_tuple[1] = 0
  THEN Raise("DriverError", errormessage, result_tuple, <<>>)
  ELSE IF Len(result_tuple) = 2
       THEN Return(<<>>, [shape |-> "scalar", items |-> <<result_tuple[2]>>])
       ELSE Return(<<>>, [shape |-> "tuple", items |-> Tail(result_tuple)])

apiset(res, errormessage) ==
  IF ~res
  THEN Raise("DriverError", errormessage, <<>>, <<>>)
  ELSE Return(<<>>, NoRet)

\* a driver write and the adapter around it
Write(fn, args, okd, errormessage) ==
  LET call == [fn |-> fn, args |-> args, reply |-> <<IF okd THEN 1 ELSE 0>>]
      a == apiset(okd, errormessage)
  IN  [a EXCEPT !.calls = <<call>>]

\* a driver read and the adapter around it
Read(fn, args, reply, errormessage) ==
  LET call == [fn |-> fn, args |-> args, reply |-> reply]
      a == apiget(reply, errormessage)
  IN  [a EXCEPT !.calls = <<call>>]

-----------------------------------------------------------------------------
(* check_id, check_roboclaw *)

IdOk(f) == [result |-> "ok", val |-> f, msg |-> ""]
IdBad(m) == [result |-> "InvalidIdentifier", val |-> <<>>, msg |-> m]

check_id_mut_range(id) ==
  IF id.c \notin {"tuple", "list"} THEN IdBad("must be a tuple")
  ELSE IF Len(id.f) # 3 THEN IdBad("must have three elements")
  ELSE IF ~isinstance_int(id.f[1]) THEN IdBad("address must be an integer")
  ELSE IF id.f[1].v < 128 \/ id.f[1].v > 136 THEN IdBad("address range")
  ELSE IF ~isinstance_int(id.f[2]) THEN IdBad("motor number must be an integer")
  ELSE IF id.f[2].v # 1 /\ id.f[2].v # 2 THEN IdBad("motor number must be 1 or 2")
  ELSE IF ~isinstance_bool(id.f[3]) THEN IdBad("inverted must be a boolean")
  ELSE IdOk(id.f)

check_id(id) ==
  IF id.c \notin {"tuple", "list"} THEN IdBad("must be a tuple")
  ELSE IF Len(id.f) # 3 THEN IdBad("must have three elements")
  ELSE IF ~isinstance_int(id.f[1]) THEN IdBad("address must be an integer")
  ELSE IF id.f[1].v < 128 \/ id.f[1].v > 135 THEN IdBad("address range")
  ELSE IF ~isinstance_int(id.f[2]) THEN IdBad("motor number must be an integer")
  ELSE IF id.f[2].v # 1 /\ id.f[2].v # 2 THEN IdBad("motor number must be 1 or 2")
  ELSE IF ~isinstance_bool(id.f[3]) THEN IdBad("inverted must be a boolean")
  ELSE IdOk(id.f)

check_roboclaw(rc) == IF rc = None THEN "NotConnected" ELSE "ok"

\* address, motor, inverted = self.check_id(id); self.check_roboclaw()
\* the exception one of the two raises, or a normal return
Entry(id) ==
  LET c == check_id(id) IN
  IF c.result # "ok" THEN Raise("InvalidIdentifier", c.msg, <<>>, <<>>)
  ELSE IF check_roboclaw(roboclaw) # "ok"
       THEN Raise("NotConnected", "RoboClaw not yet connected", <<>>, <<>>)
       ELSE Return(<<>>, NoRet)

\* the three names the tuple returned by check_id is unpacked into
address_of(id) == check_id(id).val[1].v
motor_of(id) == check_id(id).val[2].v
inverted_of(id) == check_id(id).val[3].v = 1

\* the channel-1 or channel-2 variant of a driver operation
M(motor, fn1, fn2) == IF motor = 1 THEN fn1 ELSE fn2

-----------------------------------------------------------------------------
(* The configuration file: what configuration("roboclaw").load() returns *)

ProfileA ==
  [velocity |-> [maxCurrent |-> 1000, maxVelocity |-> 1000, acceleration |-> 500,
                 velocity |-> [p |-> 3, i |-> 1, d |-> 0, qpps |-> 2000]],
   angle |-> [maxCurrent |-> 400, accel |-> 600, speed |-> 700, decel |-> 800,
              velocity |-> [p |-> 5, i |-> 2, d |-> 1, qpps |-> 1500],
              position |-> [p |-> 30, i |-> 4, d |-> 6, maxi |-> 7, deadzone |-> 8],
              hardstop |-> [count |-> 333, angle |-> 45]]]

ProfileB ==
  [velocity |-> [maxCurrent |-> 900, maxVelocity |-> 333, acceleration |-> 120,
                 velocity |-> [p |-> 2, i |-> 1, d |-> 1, qpps |-> 300]],
   angle |-> [maxCurrent |-> 350, accel |-> 60, speed |-> 70, decel |-> 80,
              velocity |-> [p |-> 4, i |-> 3, d |-> 2, qpps |-> 150],
              position |-> [p |-> 20, i |-> 9, d |-> 5, maxi |-> 6, deadzone |-> 3],
              hardstop |-> [count |-> 100, angle |-> 30]]]

Configs ==
  { [connect |-> [port |-> port], velocity |-> pr.velocity, angle |-> pr.angle] :
      port \in {"TEST", "/dev/ttyACM0"}, pr \in {ProfileA, ProfileB} }

-----------------------------------------------------------------------------
(* connect *)

connect_mut_reset(allparams, opened) ==
  LET portname == allparams.connect.port
      newrc == [gen |-> roboclaw.gen + 1,
                kind |-> IF portname = "TEST" THEN "stub" ELSE "real"]
  IN  [velocityparams |-> allparams.velocity,
       angleparams |-> allparams.angle,
       roboclaw |-> IF portname = "TEST" \/ opened THEN newrc ELSE None,
       out |-> IF portname = "TEST" \/ opened
               THEN Return(<<>>, NoRet)
               ELSE Raise("ConnectionError", "Could not connect to RoboClaw",
                          <<>>, <<>>)]

connect(allparams, opened) ==
  LET portname == allparams.connect.port
      newrc == [gen |-> roboclaw.gen + 1,
                kind |-> IF portname = "TEST" THEN "stub" ELSE "real"]
  IN  [velocityparams |-> allparams.velocity,
       angleparams |-> allparams.angle,
       roboclaw |-> IF portname = "TEST" \/ opened THEN newrc ELSE roboclaw,
       out |-> IF portname = "TEST" \/ opened
               THEN Return(<<>>, NoRet)
               ELSE Raise("ConnectionError", "Could not connect to RoboClaw",
                          <<>>, <<>>)]

-----------------------------------------------------------------------------
(* Telemetry *)

version(id, reply) ==
  IF Entry(id).result # "ok" THEN Entry(id)
  ELSE
    LET address == address_of(id)
        motor == motor_of(id)
        inverted == inverted_of(id)
    IN
      Read("ReadVersion", <<address>>, reply, "RoboClaw ReadVersion @")

input_voltage(id, reply) ==
  IF Entry(id).result # "ok" THEN Entry(id)
  ELSE
    LET address == address_of(id)
        motor == motor_of(id)
        inverted == inverted_of(id)
    IN
      LET r == Read("ReadMainBatteryVoltage", <<address>>, reply,
                    "RoboClaw API Getter")
      IN  IF r.result # "ok" THEN r
          ELSE [r EXCEPT !.ret = [shape |-> "tenths", items |-> r.ret.items]]

-----------------------------------------------------------------------------
(* Unit translation *)

\* level = int(64 + (pct * 63)/100)
power_level_mut_scale(pct) == int(64 * 100 + pct * 64, 100)
power_level(pct) == int(64 * 100 + pct * 63, 100)

power_percent(id, percentage, okd) ==
  IF Entry(id).result # "ok" THEN Entry(id)
  ELSE
    LET address == address_of(id)
        motor == motor_of(id)
        inverted == inverted_of(id)
    IN
      LET pct == int(percentage, Den) IN
      IF Abs(pct) > 100
      THEN Raise("OutOfRange", "Motor power percentage outside valid range",
                 <<>>, <<>>)
      ELSE Write(M(motor, "ForwardBackwardM1", "ForwardBackwardM2"),
                 <<address, power_level(pct)>>, okd, "RoboClaw power")

\* qpps = int(maxVelocity * pct_velocity / 100); if inverted: qpps = -qpps
velocity_qpps_mut_noinvert(maxVelocity, pct_velocity, inverted) ==
  int(maxVelocity * pct_velocity, Den * 100)

velocity_qpps(maxVelocity, pct_velocity, inverted) ==
  LET q == int(maxVelocity * pct_velocity, Den * 100)
  IN  IF inverted THEN -q ELSE q

velocity(id, pct_velocity, okd) ==
  IF Entry(id).result # "ok" THEN Entry(id)
  ELSE
    LET address == address_of(id)
        motor == motor_of(id)
        inverted == inverted_of(id)
    IN
      IF Abs(int(pct_velocity, Den)) > 100
      THEN Raise("OutOfRange", "Velocity percentage exceeds maximum of 100",
                 <<>>, <<>>)
      ELSE IF velocityparams = Unset
      THEN Raise("AttributeError", "velocityparams", <<>>, <<>>)
      ELSE Write(M(motor, "SpeedAccelM1", "SpeedAccelM2"),
                 <<address, velocityparams.acceleration,
                   velocity_qpps(velocityparams.maxVelocity, pct_velocity, inverted)>>,
                 okd, "Velocity on RoboClaw")

\* position = int(hardstopcount * angle / hardstopangle); negated if inverted
angle_position_mut_noinvert(hardstopcount, degrees, hardstopangle, inverted) ==
  int(hardstopcount * degrees, Den * hardstopangle)

angle_position(hardstopcount, degrees, hardstopangle, inverted) ==
  LET p == int(hardstopcount * degrees, Den * hardstopangle)
  IN  IF inverted THEN -p ELSE p

angle(id, degrees, okd) ==
  IF Entry(id).result # "ok" THEN Entry(id)
  ELSE
    LET address == address_of(id)
        motor == motor_of(id)
        inverted == inverted_of(id)
    IN
      IF angleparams = Unset
      THEN Raise("AttributeError", "angleparams", <<>>, <<>>)
      ELSE IF Abs(degrees) > angleparams.hardstop.angle * Den
      THEN Raise("OutOfRange", "Steering angle exceeds maximum", <<>>, <<>>)
      ELSE Write(M(motor, "SpeedAccelDeccelPositionM1", "SpeedAccelDeccelPositionM2"),
                 <<address, angleparams.accel, angleparams.speed, angleparams.decel,
                   angle_position(angleparams.hardstop.count, degrees,
                                  angleparams.hardstop.angle, inverted),
                   immediate_execution>>,
                 okd, "Position on RoboClaw")

maxangle(id) ==
  IF angleparams = Unset
  THEN Raise("AttributeError", "angleparams", <<>>, <<>>)
  ELSE Return(<<>>, [shape |-> "scalar", items |-> <<angleparams.hardstop.angle>>])

steer_setzero(id, okd) ==
  IF Entry(id).result # "ok" THEN Entry(id)
  ELSE
    LET address == address_of(id)
        motor == motor_of(id)
        inverted == inverted_of(id)
    IN
      Write(M(motor, "SetEncM1", "SetEncM2"), <<address, 0>>, okd,
            "Reset encoder on RoboClaw")

-----------------------------------------------------------------------------
(* Calibration *)

\* apiset is called without the error message built for it
set_max_current(id, current, okd) ==
  IF Entry(id).result # "ok" THEN Entry(id)
  ELSE
    LET address == address_of(id)
        motor == motor_of(id)
        inverted == inverted_of(id)
    IN
      Write(M(motor, "SetM1MaxCurrent", "SetM2MaxCurrent"), <<address, current>>,
            okd, "RoboClaw API Setter")

set_velocity_pid(id, params, okd) ==
  IF Entry(id).result # "ok" THEN Entry(id)
  ELSE
    LET address == address_of(id)
        motor == motor_of(id)
        inverted == inverted_of(id)
    IN
      Write(M(motor, "SetM1VelocityPID", "SetM2VelocityPID"),
            <<address, params.p, params.i, params.d, params.qpps>>,
            okd, "RoboClaw Velocity PID")

set_position_pid(id, params, limit, okd) ==
  IF Entry(id).result # "ok" THEN Entry(id)
  ELSE
    LET address == address_of(id)
        motor == motor_of(id)
        inverted == inverted_of(id)
    IN
      Write(M(motor, "SetM1PositionPID", "SetM2PositionPID"),
            <<address, params.p, params.i, params.d, params.maxi, params.deadzone,
              -limit, limit>>,
            okd, "RoboClaw Position PID")

\* the argument self.velocityparams[...] is evaluated before the call is made
init_velocity(id, oks) ==
  IF velocityparams = Unset
  THEN Raise("AttributeError", "velocityparams", <<>>, <<>>)
  ELSE Then(set_max_current(id, velocityparams.maxCurrent, oks[1]),
            set_velocity_pid(id, velocityparams.velocity, oks[2]))

\* a sequencer that carries on after a failed step
init_angle_mut_noabort(id, oks) ==
  IF angleparams = Unset
  THEN Raise("AttributeError", "angleparams", <<>>, <<>>)
  ELSE LET a == set_max_current(id, angleparams.maxCurrent, oks[1])
           b == set_velocity_pid(id, angleparams.velocity, oks[2])
           c == set_position_pid(id, angleparams.position,
                                 angleparams.hardstop.count, oks[3])
       IN  [c EXCEPT !.calls = a.calls \o b.calls \o c.calls]

\* p = self.angleparams is read before anything else
init_angle(id, oks) ==
  IF angleparams = Unset
  THEN Raise("AttributeError", "angleparams", <<>>, <<>>)
  ELSE Then(set_max_current(id, angleparams.maxCurrent, oks[1]),
       Then(set_velocity_pid(id, angleparams.velocity, oks[2]),
            set_position_pid(id, angleparams.position,
                             angleparams.hardstop.count, oks[3])))

-----------------------------------------------------------------------------
(* Inputs *)

AddrVals ==
  { PyInt(a) : a \in {127, 128, 131, 135, 136} }
    \cup { PyBool(TRUE), PyStr(128), PyFloat(128) }

MotorVals ==
  { PyInt(m) : m \in 0 .. 3 } \cup { PyBool(TRUE), PyStr(1), PyFloat(1) }

InvertedVals ==
  { PyBool(b) : b \in BOOLEAN } \cup { PyInt(0), PyInt(1), PyStr(0) }

Triples == { <<a, m, i>> : a \in AddrVals, m \in MotorVals, i \in InvertedVals }

\* identifiers handed to check_id: tuples and lists of two to four fields, and
\* values that are no sequence at all
RawIds ==
  { [c |-> c, f |-> f] : c \in {"tuple", "list"}, f \in Triples }
    \cup { [c |-> c, f |-> <<PyInt(128), PyInt(1)>>] : c \in {"tuple", "list"} }
    \cup { [c |-> "tuple", f |-> <<PyInt(128), PyInt(1), PyBool(FALSE), PyInt(0)>>],
           [c |-> "str", f |-> <<PyStr(1), PyStr(2), PyStr(3)>>],
           [c |-> "int", f |-> <<>>] }

Id(a, m, i) == [c |-> "tuple", f |-> <<PyInt(a), PyInt(m), PyBool(i)>>]

\* identifiers handed to the motor operations
OpIds ==
  { Id(a, m, i) : a \in {128, 135}, m \in {1, 2}, i \in BOOLEAN }
    \cup { Id(127, 1, FALSE), Id(128, 3, FALSE),
           [c |-> "tuple", f |-> <<PyInt(128), PyInt(1), PyStr(0)>>],
           [c |-> "tuple", f |-> <<PyInt(128), PyInt(1)>>] }

\* percentages: the integers -MaxPct .. MaxPct and some values between integers
PctInputs ==
  { Den * p : p \in -MaxPct .. MaxPct }
    \cup { s * (Den * p + 1) : p \in {0, 50, 99, 100}, s \in {-1, 1} }

\* degrees: the integers -MaxDeg .. MaxDeg and some values between integers
DegInputs ==
  { Den * d : d \in -MaxDeg .. MaxDeg }
    \cup { s * (Den * d + 1) : d \in {0, 29, 30, 44, 45}, s \in {-1, 1} }

\* driver read tuples: a status flag followed by data elements
RECURSIVE TuplesOfLen(_)
TuplesOfLen(n) ==
  IF n = 1 THEN { <<0>>, <<1>> }
  ELSE { Append(t, x) : t \in TuplesOfLen(n - 1), x \in {7, 123} }

ReadTuples == UNION { TuplesOfLen(n) : n \in 1 .. MaxTupleLen }

VersionReplies == { <<0, 0>>, <<1, 7>> }
VoltageReplies == { <<0, 0>>, <<1, 120>>, <<1, 125>> }
ErrorMessages == { "RoboClaw API Getter", "RoboClaw API Setter", "Read voltage" }

-----------------------------------------------------------------------------
(* The wrapper used from one thread: one action per operation *)

NoId == [c |-> "none", f |-> <<>>]

Init ==
  /\ roboclaw = None
  /\ velocityparams = Unset
  /\ angleparams = Unset
  /\ op = "idle"
  /\ arg_id = NoId
  /\ arg_val = 0
  /\ arg_tuple = <<>>
  /\ arg_msg = ""
  /\ result = "ok"
  /\ ctx = ""
  /\ raw = <<>>
  /\ ret = NoRet
  /\ idret = <<>>
  /\ calls = <<>>
  /\ tpc = <<>>
  /\ tcmd = <<>>
  /\ inflight = <<>>
  /\ wire = <<>>
  /\ submitted = <<>>

\* a method of the wrapper was called with (id, val) and ended with outcome o
Do(name, id, val, o) ==
  /\ op' = name
  /\ arg_id' = id
  /\ arg_val' = val
  /\ arg_tuple' = <<>>
  /\ arg_msg' = ""
  /\ result' = o.result
  /\ ctx' = o.ctx
  /\ raw' = o.raw
  /\ ret' = o.ret
  /\ idret' = <<>>
  /\ calls' = o.calls
  /\ UNCHANGED <<roboclaw, velocityparams, angleparams>>
  /\ UNCHANGED thrvars

Connect ==
  /\ op = "idle"
  /\ roboclaw.gen < MaxHandles
  /\ \E allparams \in Configs, opened \in BOOLEAN :
       LET c == connect(allparams, opened) IN
       /\ roboclaw' = c.roboclaw
       /\ velocityparams' = c.velocityparams
       /\ angleparams' = c.angleparams
       /\ op' = "connect"
       /\ arg_id' = NoId
       /\ arg_val' = 0
       /\ arg_tuple' = <<>>
       /\ arg_msg' = ""
       /\ result' = c.out.result
       /\ ctx' = c.out.ctx
       /\ raw' = c.out.raw
       /\ ret' = c.out.ret
       /\ idret' = <<>>
       /\ calls' = c.out.calls
  /\ UNCHANGED thrvars

CheckId ==
  /\ op = "idle"
  /\ \E id \in RawIds :
       LET c == check_id(id) IN
       /\ op' = "check_id"
       /\ arg_id' = id
       /\ arg_val' = 0
       /\ arg_tuple' = <<>>
       /\ arg_msg' = ""
       /\ result' = c.result
       /\ ctx' = c.msg
       /\ raw' = <<>>
       /\ ret' = NoRet
       /\ idret' = c.val
       /\ calls' = <<>>
       /\ UNCHANGED <<roboclaw, velocityparams, angleparams>>
       /\ UNCHANGED thrvars

\* the outcome o of an adapter called with (tuple, msg)
Adapt(name, tuple, msg, o) ==
  /\ op' = name
  /\ arg_id' = NoId
  /\ arg_val' = 0
  /\ arg_tuple' = tuple
  /\ arg_msg' = msg
  /\ result' = o.result
  /\ ctx' = o.ctx
  /\ raw' = o.raw
  /\ ret' = o.ret
  /\ idret' = <<>>
  /\ calls' = <<>>
  /\ UNCHANGED <<roboclaw, velocityparams, angleparams>>
  /\ UNCHANGED thrvars

ApiGet ==
  /\ op = "idle"
  /\ \E t \in ReadTuples, msg \in ErrorMessages :
       Adapt("apiget", t, msg, apiget(t, msg))

ApiSet ==
  /\ op = "idle"
  /\ \E b \in BOOLEAN, msg \in ErrorMessages :
       Adapt("apiset", <<IF b THEN 1 ELSE 0>>, msg, apiset(b, msg))

Version ==
  /\ op = "idle"
  /\ \E id \in OpIds, reply \in VersionReplies :
       Do("version", id, 0, version(id, reply))

InputVoltage ==
  /\ op = "idle"
  /\ \E id \in OpIds, reply \in VoltageReplies :
       Do("input_voltage", id, 0, input_voltage(id, reply))

PowerPercent ==
  /\ op = "idle"
  /\ \E id \in OpIds, percentage \in PctInputs, okd \in BOOLEAN :
       Do("power_percent", id, percentage, power_percent(id, percentage, okd))

Velocity ==
  /\ op = "idle"
  /\ \E id \in OpIds, pct_velocity \in PctInputs, okd \in BOOLEAN :
       Do("velocity", id, pct_velocity, velocity(id, pct_velocity, okd))

Angle ==
  /\ op = "idle"
  /\ \E id \in OpIds, degrees \in DegInputs, okd \in BOOLEAN :
       Do("angle", id, degrees, angle(id, degrees, okd))

MaxAngle ==
  /\ op = "idle"
  /\ \E id \in OpIds :
       Do("maxangle", id, 0, maxangle(id))

SteerSetZero ==
  /\ op = "idle"
  /\ \E id \in OpIds, okd \in BOOLEAN :
       Do("steer_setzero", id, 0, steer_setzero(id, okd))

SetMaxCurrent ==
  /\ op = "idle"
  /\ \E id \in OpIds, current \in {350, 1000}, okd \in BOOLEAN :
       Do("set_max_current", id, current, set_max_current(id, current, okd))

SetVelocityPid ==
  /\ op = "idle"
  /\ \E id \in OpIds, pr \in {ProfileA, ProfileB}, okd \in BOOLEAN :
       Do("set_velocity_pid", id, pr.velocity.velocity.qpps,
          set_velocity_pid(id, pr.velocity.velocity, okd))

SetPositionPid ==
  /\ op = "idle"
  /\ \E id \in OpIds, pr \in {ProfileA, ProfileB}, okd \in BOOLEAN :
       Do("set_position_pid", id, pr.angle.hardstop.count,
          set_position_pid(id, pr.angle.position, pr.angle.hardstop.count, okd))

InitVelocity ==
  /\ op = "idle"
  /\ \E id \in OpIds, oks \in [1 .. 2 -> BOOLEAN] :
       Do("init_velocity", id, 0, init_velocity(id, oks))

InitAngle ==
  /\ op = "idle"
  /\ \E id \in OpIds, oks \in [1 .. 3 -> BOOLEAN] :
       Do("init_angle", id, 0, init_angle(id, oks))

\* The record of the last call (op .. calls) is history kept for stating the
\* properties, not state of the program: the caller drops it before its next
\* call.  The wrapper's own state (roboclaw, velocityparams, angleparams) stays.
Idle ==
  /\ op # "idle"
  /\ op' = "idle"
  /\ arg_id' = NoId
  /\ arg_val' = 0
  /\ arg_tuple' = <<>>
  /\ arg_msg' = ""
  /\ result' = "ok"
  /\ ctx' = ""
  /\ raw' = <<>>
  /\ ret' = NoRet
  /\ idret' = <<>>
  /\ calls' = <<>>
  /\ UNCHANGED <<roboclaw, velocityparams, angleparams>>
  /\ UNCHANGED thrvars

Next ==
  \/ Idle
  \/ Connect
  \/ CheckId
  \/ ApiGet
  \/ ApiSet
  \/ Version
  \/ InputVoltage
  \/ PowerPercent
  \/ Velocity
  \/ Angle
  \/ MaxAngle
  \/ SteerSetZero
  \/ SetMaxCurrent
  \/ SetVelocityPid
  \/ SetPositionPid
  \/ InitVelocity
  \/ InitAngle

Spec == Init /\ [][Next]_vars

-----------------------------------------------------------------------------
(* The wrapper called from several threads.  The class takes no lock and    *)
(* keeps no owner (its docstring lists both as goals), so a caller's driver *)
(* call starts whenever that caller is scheduled.  A driver call is a       *)
(* blocking round trip on the transport: it begins, and later it ends.      *)

Threads == {1, 2}

NoCall == [fn |-> "", args |-> <<>>, reply |-> <<>>]
NoCmd == [name |-> "", id |-> NoId, val |-> 0, plan |-> <<>>, step |-> 0]

ThreadIds == { Id(128, m, FALSE) : m \in {1, 2} }

\* the driver calls a command issues when every one of them succeeds
ThreadPlan(name, id, val) ==
  CASE name = "init_velocity" -> init_velocity(id, [k \in 1 .. 2 |-> TRUE]).calls
    [] name = "init_angle" -> init_angle(id, [k \in 1 .. 3 |-> TRUE]).calls
    [] name = "velocity" -> velocity(id, val, TRUE).calls
    [] OTHER -> steer_setzero(id, TRUE).calls

InitThreads ==
  /\ \E allparams \in Configs :
       /\ roboclaw = [gen |-> 1,
                      kind |-> IF allparams.connect.port = "TEST"
                               THEN "stub" ELSE "real"]
       /\ velocityparams = allparams.velocity
       /\ angleparams = allparams.angle
  /\ op = "idle"
  /\ arg_id = NoId
  /\ arg_val = 0
  /\ arg_tuple = <<>>
  /\ arg_msg = ""
  /\ result = "ok"
  /\ ctx = ""
  /\ raw = <<>>
  /\ ret = NoRet
  /\ idret = <<>>
  /\ calls = <<>>
  /\ tpc = [t \in Threads |-> "idle"]
  /\ tcmd = [t \in Threads |-> NoCmd]
  /\ inflight = [t \in Threads |-> NoCall]
  /\ wire = <<>>
  /\ submitted = <<>>

\* thread t calls a method of the shared wrapper
Submit(t) ==
  /\ tpc[t] = "idle"
  /\ \E name \in {"init_velocity", "init_angle", "velocity", "steer_setzero"},
        id \in ThreadIds, val \in {Den * 50, -(Den * 50)} :
       tcmd' = [tcmd EXCEPT ![t] =
                  [name |-> name, id |-> id,
                   val |-> IF name = "velocity" THEN val ELSE 0,
                   plan |-> ThreadPlan(name, id, val), step |-> 1]]
  /\ tpc' = [tpc EXCEPT ![t] = "ready"]
  /\ submitted' = Append(submitted, t)
  /\ UNCHANGED <<inflight, wire>>
  /\ UNCHANGED seqvars

\* thread t's next driver call reaches the transport: nothing makes it wait
Begin(t) ==
  /\ tpc[t] = "ready"
  /\ inflight' = [inflight EXCEPT ![t] = tcmd[t].plan[tcmd[t].step]]
  /\ wire' = Append(wire, [t |-> t, motor |-> tcmd[t].id.f[2].v,
                           fn |-> tcmd[t].plan[tcmd[t].step].fn])
  /\ tpc' = [tpc EXCEPT ![t] = "incall"]
  /\ UNCHANGED <<tcmd, submitted>>
  /\ UNCHANGED seqvars

\* the driver call returns; a failure raises and ends the command
End(t) ==
  /\ tpc[t] = "incall"
  /\ \E okd \in BOOLEAN :
       LET a == apiset(okd, "RoboClaw API Setter") IN
       IF a.result # "ok"
       THEN /\ tpc' = [tpc EXCEPT ![t] = "raised"]
            /\ tcmd' = tcmd
       ELSE IF tcmd[t].step = Len(tcmd[t].plan)
       THEN /\ tpc' = [tpc EXCEPT ![t] = "done"]
            /\ tcmd' = tcmd
       ELSE /\ tpc' = [tpc EXCEPT ![t] = "ready"]
            /\ tcmd' = [tcmd EXCEPT ![t].step = @ + 1]
  /\ inflight' = [inflight EXCEPT ![t] = NoCall]
  /\ UNCHANGED <<wire, submitted>>
  /\ UNCHANGED seqvars

NextThreads ==
  \E t \in Threads :
    \/ Submit(t)
    \/ Begin(t)
    \/ End(t)

SpecThreads == InitThreads /\ [][NextThreads]_vars

-----------------------------------------------------------------------------
(* Vocabulary of the properties, stated without the operators that model    *)
(* the code                                                                 *)

\* the identifiers the wrapper is documented to accept: a tuple or list of
\* three fields, an int address in 128..135, a motor equal to 1 or 2 (Python's
\* True is an int equal to 1), and a bool
ValidIds ==
  { [c |-> c, f |-> <<a, m, i>>] :
      c \in {"tuple", "list"},
      a \in { PyInt(n) : n \in 128 .. 135 },
      m \in { PyInt(1), PyInt(2), PyBool(TRUE) },
      i \in { PyBool(TRUE), PyBool(FALSE) } }

Address == arg_id.f[1].v
Motor == arg_id.f[2].v
Inverted == arg_id.f[3].v = 1

Connected == roboclaw # None
ValidCall(name) == op = name /\ arg_id \in ValidIds /\ Connected

\* q is n/d rounded to a nearest integer (either way on a tie), d > 0
IsNearest(q, n, d) == 2 * Abs(q * d - n) <= d

\* q is n/d with its fraction dropped (rounded toward zero), d > 0
IsTruncated(q, n, d) ==
  IF n >= 0 THEN q * d <= n /\ n < (q + 1) * d
            ELSE (q - 1) * d < n /\ n <= q * d

Flip(q) == IF Inverted THEN -q ELSE q

\* the operation issued exactly one driver call: the channel's variant of fn
OneCall(fn1, fn2) ==
  /\ Len(calls) = 1
  /\ calls[1].fn = (IF Motor = 1 THEN fn1 ELSE fn2)
  /\ calls[1].args[1] = Address

Rejected(kind) == result = kind /\ calls = <<>>

MotorOps ==
  { "version", "power_percent", "set_max_current", "set_velocity_pid",
    "init_velocity", "velocity", "set_position_pid", "init_angle", "angle",
    "steer_setzero", "input_voltage" }

-----------------------------------------------------------------------------
(* C1: every motor-affecting operation called with a valid identifier while *)
(* no handle exists fails with NotConnected and issues no driver call.      *)
(* init_velocity and init_angle read self.velocityparams / self.angleparams *)
(* first, which do not exist before the first connect.                      *)
C1_NotConnectedBeforeConnect ==
  (op \in MotorOps /\ arg_id \in ValidIds /\ roboclaw = None)
    => Rejected("NotConnected")

-----------------------------------------------------------------------------
(* C2: check_id accepts exactly the identifiers of three fields with an     *)
(* address in 128..135, a motor that is 1 or 2 and a strict boolean; every  *)
(* other input fails with InvalidIdentifier; the returned triple is the     *)
(* input's fields unchanged.                                                *)
C2_CheckIdAcceptsExactlyValid ==
  op = "check_id" =>
    /\ result \in {"ok", "InvalidIdentifier"}
    /\ (result = "ok") <=> (arg_id \in ValidIds)
    /\ result = "ok" => idret = arg_id.f
    /\ arg_id = Id(128, 1, FALSE) => result = "ok"
    /\ arg_id \in { Id(127, 1, FALSE), Id(128, 3, FALSE),
                    [c |-> "tuple", f |-> <<PyInt(128), PyInt(1), PyStr(0)>>],
                    [c |-> "tuple", f |-> <<PyInt(128), PyInt(1)>>] }
         => result = "InvalidIdentifier"

C2_Witness ==
  /\ op = "check_id"
  /\ arg_id = [c |-> "list", f |-> <<PyInt(135), PyInt(2), PyBool(TRUE)>>]
  /\ result = "ok"
  /\ idret = <<PyInt(135), PyInt(2), PyBool(TRUE)>>

-----------------------------------------------------------------------------
(* C3 as stated: for integer p in [-100,100] power_percent issues one       *)
(* forward/backward call of the identifier's channel with                   *)
(* level = round(64 + 63p/100) in [1,127]; p outside fails with OutOfRange. *)
C3_LevelRounded ==
  (ValidCall("power_percent") /\ arg_val % Den = 0) =>
    LET p == arg_val \div Den IN
    IF Abs(p) <= 100
    THEN /\ result \in {"ok", "DriverError"}
         /\ OneCall("ForwardBackwardM1", "ForwardBackwardM2")
         /\ IsNearest(calls[1].args[2], 64 * 100 + 63 * p, 100)
         /\ calls[1].args[2] \in 1 .. 127
    ELSE Rejected("OutOfRange")

(* C3 amended: the level is 64 + 63p/100 with its fraction dropped (int()), *)
(* which lies in [1,127] and does not depend on the inversion flag.         *)
C3_LevelTruncated ==
  (ValidCall("power_percent") /\ arg_val % Den = 0) =>
    LET p == arg_val \div Den IN
    IF Abs(p) <= 100
    THEN /\ result \in {"ok", "DriverError"}
         /\ OneCall("ForwardBackwardM1", "ForwardBackwardM2")
         /\ Len(calls[1].args) = 2
         /\ IsTruncated(calls[1].args[2], 64 * 100 + 63 * p, 100)
         /\ calls[1].args[2] \in 1 .. 127
    ELSE Rejected("OutOfRange")

C3_Witness ==
  /\ ValidCall("power_percent")
  /\ arg_val = Den * 1
  /\ Inverted
  /\ result = "ok"
  /\ calls[1].args[2] = 64

-----------------------------------------------------------------------------
(* C4 as stated: for v in [-100,100] velocity issues the channel's          *)
(* speed-with-acceleration call with the velocity profile's acceleration    *)
(* and qpps = round(maxVelocity*v/100), negated iff the identifier is       *)
(* inverted; for |v| > 100 it fails with OutOfRange.                        *)
C4_QppsRounded ==
  ValidCall("velocity") =>
    IF Abs(arg_val) <= 100 * Den
    THEN /\ result \in {"ok", "DriverError"}
         /\ OneCall("SpeedAccelM1", "SpeedAccelM2")
         /\ calls[1].args[2] = velocityparams.acceleration
         /\ IsNearest(Flip(calls[1].args[3]),
                      velocityparams.maxVelocity * arg_val, 100 * Den)
    ELSE Rejected("OutOfRange")

(* C4 amended: the percentage is compared after int(), so velocity fails    *)
(* with OutOfRange exactly when |v| >= 101; otherwise qpps is               *)
(* maxVelocity*v/100 with its fraction dropped, negated iff inverted.       *)
C4_QppsTruncated ==
  ValidCall("velocity") =>
    IF Abs(arg_val) < 101 * Den
    THEN /\ result \in {"ok", "DriverError"}
         /\ OneCall("SpeedAccelM1", "SpeedAccelM2")
         /\ Len(calls[1].args) = 3
         /\ calls[1].args[2] = velocityparams.acceleration
         /\ IsTruncated(Flip(calls[1].args[3]),
                        velocityparams.maxVelocity * arg_val, 100 * Den)
    ELSE Rejected("OutOfRange")

C4_Witness ==
  /\ ValidCall("velocity")
  /\ arg_val = -(Den * 33)
  /\ velocityparams.maxVelocity = 333
  /\ Inverted
  /\ result = "ok"
  /\ calls[1].args[3] = 109

-----------------------------------------------------------------------------
(* C5 as stated: for |d| <= hardstop_angle angle issues the channel's       *)
(* position-move call with the angle profile's accel/speed/decel, the       *)
(* immediate flag set and position = round(hardstop_count*d/hardstop_angle),*)
(* negated iff inverted; for |d| > hardstop_angle it fails with OutOfRange. *)
C5_PositionRounded ==
  ValidCall("angle") =>
    IF Abs(arg_val) <= angleparams.hardstop.angle * Den
    THEN /\ result \in {"ok", "DriverError"}
         /\ OneCall("SpeedAccelDeccelPositionM1", "SpeedAccelDeccelPositionM2")
         /\ SubSeq(calls[1].args, 2, 4)
              = <<angleparams.accel, angleparams.speed, angleparams.decel>>
         /\ IsNearest(Flip(calls[1].args[5]),
                      angleparams.hardstop.count * arg_val,
                      angleparams.hardstop.angle * Den)
         /\ calls[1].args[6] = 1
    ELSE Rejected("OutOfRange")

(* C5 amended: the position is hardstop_count*d/hardstop_angle with its     *)
(* fraction dropped (int()), not rounded.                                   *)
C5_PositionTruncated ==
  ValidCall("angle") =>
    IF Abs(arg_val) <= angleparams.hardstop.angle * Den
    THEN /\ result \in {"ok", "DriverError"}
         /\ OneCall("SpeedAccelDeccelPositionM1", "SpeedAccelDeccelPositionM2")
         /\ Len(calls[1].args) = 6
         /\ SubSeq(calls[1].args, 2, 4)
              = <<angleparams.accel, angleparams.speed, angleparams.decel>>
         /\ IsTruncated(Flip(calls[1].args[5]),
                        angleparams.hardstop.count * arg_val,
                        angleparams.hardstop.angle * Den)
         /\ calls[1].args[6] = 1
    ELSE Rejected("OutOfRange")

C5_Witness ==
  /\ ValidCall("angle")
  /\ arg_val = Den * 5
  /\ angleparams.hardstop.count = 100
  /\ Inverted
  /\ result = "ok"
  /\ calls[1].args[5] = -16

-----------------------------------------------------------------------------
(* C6: the calibration sequences issue their driver calls in a fixed order  *)
(* and stop at the first failure: init_velocity issues set-max-current then *)
(* set-velocity-PID from the velocity profile; init_angle issues            *)
(* set-max-current, set-velocity-PID and set-position-PID with the limits   *)
(* -hardstop_count, +hardstop_count from the angle profile.  A failing step *)
(* gives DriverError, no later step is issued and nothing is rolled back.   *)

Pid(v) == <<v.p, v.i, v.d, v.qpps>>

\* the calls a sequence is to issue, in order, for the identifier given
Plan ==
  IF op = "init_velocity"
  THEN << [fn |-> IF Motor = 1 THEN "SetM1MaxCurrent" ELSE "SetM2MaxCurrent",
           args |-> <<Address, velocityparams.maxCurrent>>],
          [fn |-> IF Motor = 1 THEN "SetM1VelocityPID" ELSE "SetM2VelocityPID",
           args |-> <<Address>> \o Pid(velocityparams.velocity)] >>
  ELSE << [fn |-> IF Motor = 1 THEN "SetM1MaxCurrent" ELSE "SetM2MaxCurrent",
           args |-> <<Address, angleparams.maxCurrent>>],
          [fn |-> IF Motor = 1 THEN "SetM1VelocityPID" ELSE "SetM2VelocityPID",
           args |-> <<Address>> \o Pid(angleparams.velocity)],
          [fn |-> IF Motor = 1 THEN "SetM1PositionPID" ELSE "SetM2PositionPID",
           args |-> <<Address, angleparams.position.p, angleparams.position.i,
                      angleparams.position.d, angleparams.position.maxi,
                      angleparams.position.deadzone,
                      -angleparams.hardstop.count, angleparams.hardstop.count>>] >>

\* C6: the calls issued are the plan's calls in the plan's order, up to and
\* including the first one that fails, and nothing else
C6_SequenceAbortsAtFirstFailure ==
  (op \in {"init_velocity", "init_angle"} /\ arg_id \in ValidIds /\ Connected) =>
    /\ Len(calls) \in 1 .. Len(Plan)
    /\ \A k \in 1 .. Len(calls) :
         /\ calls[k].fn = Plan[k].fn
         /\ calls[k].args = Plan[k].args
         /\ k < Len(calls) => calls[k].reply = <<1>>
    /\ IF calls[Len(calls)].reply = <<1>>
       THEN result = "ok" /\ Len(calls) = Len(Plan)
       ELSE result = "DriverError"

C6_Witness ==
  /\ op = "init_angle"
  /\ arg_id \in ValidIds
  /\ result = "DriverError"
  /\ Len(calls) = 2
  /\ calls[1].reply = <<1>>
  /\ calls[2].reply = <<0>>

-----------------------------------------------------------------------------
(* C7: apiget fails with DriverError, carrying the context string and the   *)
(* raw tuple, when the leading flag signals failure; on success it returns  *)
(* the one following element unwrapped, or else the remaining elements in   *)
(* order.  apiset fails with DriverError exactly when the result is false.  *)
C7_ResultAdapter ==
  /\ op = "apiget" =>
       IF arg_tuple[1] = 0
       THEN result = "DriverError" /\ ctx = arg_msg /\ raw = arg_tuple
       ELSE /\ result = "ok"
            /\ IF Len(arg_tuple) = 2
               THEN ret = [shape |-> "scalar", items |-> <<arg_tuple[2]>>]
               ELSE /\ ret.shape = "tuple"
                    /\ Len(ret.items) = Len(arg_tuple) - 1
                    /\ \A k \in 1 .. Len(ret.items) : ret.items[k] = arg_tuple[k + 1]
  /\ (op = "apiget" /\ arg_tuple = <<0>>) => result = "DriverError"
  /\ (op = "apiget" /\ arg_tuple = <<1, 123>>)
       => ret = [shape |-> "scalar", items |-> <<123>>]
  /\ op = "apiset" =>
       /\ (result = "DriverError") <=> (arg_tuple = <<0>>)
       /\ result = "DriverError" => ctx = arg_msg
       /\ result # "DriverError" => result = "ok"

C7_Witness ==
  /\ op = "apiget"
  /\ arg_tuple = <<1, 123>>
  /\ result = "ok"
  /\ ret = [shape |-> "scalar", items |-> <<123>>]

-----------------------------------------------------------------------------
(* C8 as stated: the handle is created exactly once: once present it is     *)
(* never reset to absent and never replaced by a different handle.          *)
C8_HandleCreatedOnce ==
  [][roboclaw # None => roboclaw' = roboclaw]_vars

(* C8 amended: the handle is absent at construction; it changes only in a   *)
(* connect that succeeded (its open attempt succeeded, or simulation mode   *)
(* was selected), which installs a newly created handle, also when one is   *)
(* already present; a connect that raises ConnectionError leaves the handle *)
(* as it was; once present the handle is never reset to absent.             *)
C8_HandleLifecycle ==
  /\ roboclaw = None
  /\ [][/\ roboclaw' # roboclaw =>
            /\ op' = "connect"
            /\ result' = "ok"
            /\ roboclaw' # None
            /\ roboclaw'.gen > roboclaw.gen
        /\ (op' = "connect" /\ result' = "ok") =>
            /\ roboclaw' # roboclaw
            /\ roboclaw'.kind \in {"stub", "real"}
        /\ (op' = "connect" /\ result' # "ok") =>
            /\ result' = "ConnectionError"
            /\ roboclaw' = roboclaw
        /\ roboclaw # None => roboclaw' # None]_vars

C8_Witness ==
  /\ op = "connect"
  /\ result = "ConnectionError"
  /\ roboclaw.gen = 1

-----------------------------------------------------------------------------
(* C10: every command value that reaches the driver is inside its range:    *)
(* |position| <= hardstop_count, |qpps| <= maxVelocity, power level in      *)
(* [1,127]; a call that fails with InvalidIdentifier, NotConnected or       *)
(* OutOfRange issues no driver call and leaves the handle and the profiles  *)
(* unchanged.  velocity compares int(pct_velocity) with 100 but scales the  *)
(* unconverted value.                                                       *)
InRange(call) ==
  /\ call.fn \in {"SpeedAccelDeccelPositionM1", "SpeedAccelDeccelPositionM2"}
       => Abs(call.args[5]) <= angleparams.hardstop.count
  /\ call.fn \in {"SpeedAccelM1", "SpeedAccelM2"}
       => Abs(call.args[3]) <= velocityparams.maxVelocity
  /\ call.fn \in {"ForwardBackwardM1", "ForwardBackwardM2"}
       => call.args[2] \in 1 .. 127

\* C10: after every operation the calls it issued are in range, and a rejected
\* operation issued none and changed neither the handle nor the profiles
C10_CommandsWithinRange ==
  [][/\ op' \in {"angle", "velocity", "power_percent"}
          => \A k \in 1 .. Len(calls') : InRange(calls'[k])
     /\ result' \in {"InvalidIdentifier", "NotConnected", "OutOfRange"}
          => /\ calls' = <<>>
             /\ UNCHANGED <<roboclaw, velocityparams, angleparams>>]_vars

-----------------------------------------------------------------------------
(* C9: commands of concurrent callers are serialized: either every caller   *)
(* but one owner is rejected, or at most one driver call is in flight at a  *)
(* time; and the driver calls for a motor reach the transport in the order  *)
(* their commands were submitted.                                           *)

\* the place of thread t's command in the order of submission
Place(t) == CHOOSE k \in 1 .. Len(submitted) : submitted[k] = t

OwnerOnly ==
  \E owner \in Threads :
    \A t \in Threads \ {owner} : tpc[t] \in {"idle", "rejected"}

AtMostOneInFlight ==
  Cardinality({ t \in Threads : inflight[t] # NoCall }) <= 1

PerMotorOrder ==
  \A i, j \in 1 .. Len(wire) :
    (i < j /\ wire[i].motor = wire[j].motor)
      => Place(wire[i].t) <= Place(wire[j].t)

\* C9: only one owner's commands run or at most one driver call is in flight,
\* and calls for one motor reach the transport in submission order
C9_CommandsSerialized ==
  /\ OwnerOnly \/ AtMostOneInFlight
  /\ PerMotorOrder

====
